---- MODULE Spec2Model ----
(***************************************************************************)
(* Model of the Aerospike test-container module (aerospike.go).            *)
(*                                                                         *)
(* The module is a thin launcher: RunContainer builds a container request, *)
(* applies the caller's options to it in order, and hands it to the        *)
(* container framework (testcontainers.GenericContainer).  The framework   *)
(* is outside the repository; it is modelled as a nondeterministic         *)
(* environment that creates, starts, runs the post-start hooks of, and     *)
(* waits for a container, any step of which may fail.                      *)
(*                                                                         *)
(* A pointer is a sequence of length at most one: << >> is nil, <<v>> is   *)
(* a pointer to v.  An error is the chain of its messages, outermost       *)
(* first: << >> is the nil error and fmt.Errorf("p: %w", e) is <<p>> \o e. *)
(***************************************************************************)
EXTENDS Naturals, Sequences, FiniteSets, TLC

VARIABLES
    pc,         \* position of the caller / of RunContainer / of the framework
    opts,       \* the option list of the launch (the calls the caller wrote)
    idx,        \* 1-based position of the range loop of RunContainer
    req,        \* pointer to the request the options are applied to
    before,     \* req as it was before the most recent Customize
    applied,    \* the calls whose Customize has been invoked, in order
    outcome,    \* how the most recent Customize ended: none, ok, error, panic
    custErr,    \* the error the most recent Customize returned
    ret,        \* what RunContainer returned: [handle, err]
    fwCalls,    \* number of invocations of testcontainers.GenericContainer
    fwReq,      \* the request GenericContainer received (pointer)
    fwRet,      \* what GenericContainer returned: [container, err]
    container,  \* state of the container: none, created, running, terminated
    hostPort,   \* the host port the runtime bound to the exposed port
    hookIdx,    \* next post-start hook (in the flattened list) to run
    execLog,    \* the commands executed in the container, in order
    portRet     \* what the most recent ServicePort returned (pointer)

vars == <<pc, opts, idx, req, before, applied, outcome, custErr, ret, fwCalls,
          fwReq, fwRet, container, hostPort, hookIdx, execLog, portRet>>

----------------------------------------------------------------------------
(* Bounds *)

\* Longest option list passed to RunContainer.
MaxOpts == 3

----------------------------------------------------------------------------
(* Program constants *)

\* Variant: the port looked up is not the port exposed.
aerospikeServicePortUnexposed == "3001/tcp"

aerospikeServicePort == "3000/tcp"

communityAerospikeImage == "aerospike/aerospike-server:8.0"

\* Variant: the enterprise constant holds the community image.
enterpriseAerospikeImageAsCommunity == "aerospike/aerospike-server:8.0"

enterpriseAerospikeImage == "aerospike/aerospike-server-enterprise:8.0"

----------------------------------------------------------------------------
(* Values *)

NilPtr == << >>

Ptr(v) == <<v>>

NilErr == << >>

\* fmt.Errorf(prefix + ": %w", err)
Wrap(prefix, err) == <<prefix>> \o err

\* errors.Unwrap
Unwrap(err) == Tail(err)

\* A nil map and an allocated map differ in Go; reads of both give "" for a
\* missing key.
NilMap == [isNil |-> TRUE, kv |-> << >>]

EmptyMap == [isNil |-> FALSE, kv |-> << >>]

MapGet(m, k) == IF k \in DOMAIN m.kv THEN m.kv[k] ELSE ""

MapSet(m, k, v) ==
    [isNil |-> FALSE,
     kv |-> [x \in (DOMAIN m.kv) \cup {k} |-> IF x = k THEN v ELSE m.kv[x]]]

\* The zero value testcontainers.GenericContainerRequest{}.
ZeroRequest ==
    [Image |-> "", ExposedPorts |-> << >>, WaitingFor |-> "", Env |-> NilMap,
     LifecycleHooks |-> << >>, Started |-> FALSE]

\* A request some other code has already filled in.
PopulatedRequest ==
    [Image |-> "aerospike/aerospike-server:6.4",
     ExposedPorts |-> <<"3000/tcp">>,
     WaitingFor |-> "aerospikeWaitStrategy",
     Env |-> [isNil |-> FALSE,
              kv |-> [k \in {"NAMESPACE", "AEROSPIKE_LOG_LEVEL", "FEATURE_KEY_FILE"} |->
                        CASE k = "NAMESPACE" -> "old"
                          [] k = "AEROSPIKE_LOG_LEVEL" -> "info"
                          [] OTHER -> "/etc/features.conf"]],
     LifecycleHooks |-> <<[PostStarts |-> <<[hook |-> "user", namespace |-> ""]>>]>>,
     Started |-> TRUE]

----------------------------------------------------------------------------
(* Option functions *)

\* What a Customize call does: it returns err and leaves the request as req,
\* or it panics (a nil pointer dereference) and returns nothing.
Returned(p, err) ==
    [outcome |-> IF err = NilErr THEN "ok" ELSE "error", req |-> p, err |-> err]

Panicked(p) == [outcome |-> "panic", req |-> p, err |-> NilErr]

\* An option is the closure its constructor returns: the function and the
\* value it captured.
\* func WithImage(image string)
WithImage(image) == [fn |-> "testcontainers.WithImage", arg |-> image]

\* func WithEnterpriseEdition()
WithEnterpriseEdition == WithImage(enterpriseAerospikeImage)

\* Variant: an empty namespace is replaced by "test", as WithTTLSupport does.
WithNamespaceDefaulting(namespace) ==
    [fn |-> "WithNamespace", arg |-> IF namespace = "" THEN "test" ELSE namespace]

\* func WithNamespace(namespace string)
WithNamespace(namespace) == [fn |-> "WithNamespace", arg |-> namespace]

\* func WithLogLevel(logLevel string)
WithLogLevel(logLevel) == [fn |-> "WithLogLevel", arg |-> logLevel]

\* Variant: the empty namespace is kept.
WithTTLSupportNoDefault(namespace) == [fn |-> "WithTTLSupport", arg |-> namespace]

\* func WithTTLSupport(namespace string): if namespace == "" { namespace = "test" }
WithTTLSupport(namespace) ==
    [fn |-> "WithTTLSupport", arg |-> IF namespace = "" THEN "test" ELSE namespace]

\* A customizer the caller wrote that rejects the request.
FailingOption == [fn |-> "failing", arg |-> ""]

\* The body of the closure testcontainers.WithImage returns: req.Image = image.
WithImageFn(image, p) ==
    IF p = NilPtr THEN Panicked(p)
    ELSE Returned(Ptr([p[1] EXCEPT !.Image = image]), NilErr)

\* if req.Env == nil { req.Env = make(map[string]string) }; req.Env[key] = value
SetEnv(r, key, value) ==
    LET env == IF r.Env.isNil THEN EmptyMap ELSE r.Env
    IN  [r EXCEPT !.Env = MapSet(env, key, value)]

\* The closure WithNamespace returns.
WithNamespaceFn(namespace, p) ==
    IF p = NilPtr THEN Panicked(p)
    ELSE Returned(Ptr(SetEnv(p[1], "NAMESPACE", namespace)), NilErr)

\* Variant: the log level is stored under the namespace key.
WithLogLevelFnWrongKey(logLevel, p) ==
    IF p = NilPtr THEN Panicked(p)
    ELSE Returned(Ptr(SetEnv(p[1], "NAMESPACE", logLevel)), NilErr)

\* The closure WithLogLevel returns.
WithLogLevelFn(logLevel, p) ==
    IF p = NilPtr THEN Panicked(p)
    ELSE Returned(Ptr(SetEnv(p[1], "AEROSPIKE_LOG_LEVEL", logLevel)), NilErr)

\* The post-start hook is a closure over namespace.
TTLHookValue(namespace) == [hook |-> "ttl", namespace |-> namespace]

\* The closure WithTTLSupport returns.
WithTTLSupportFn(namespace, p) ==
    IF p = NilPtr THEN Panicked(p)
    ELSE Returned(
            Ptr([p[1] EXCEPT !.LifecycleHooks =
                    Append(@, [PostStarts |-> <<TTLHookValue(namespace)>>])]),
            NilErr)

\* opt.Customize(req)
Customize(opt, p) ==
    CASE opt.fn = "testcontainers.WithImage" -> WithImageFn(opt.arg, p)
      [] opt.fn = "WithNamespace" -> WithNamespaceFn(opt.arg, p)
      [] opt.fn = "WithLogLevel" -> WithLogLevelFn(opt.arg, p)
      [] opt.fn = "WithTTLSupport" -> WithTTLSupportFn(opt.arg, p)
      [] OTHER -> Returned(p, <<"request rejected">>)

\* cmd := []string{"asinfo", "-v", fmt.Sprintf(...)}
TTLCommand(namespace) ==
    <<"asinfo", "-v",
      "set-config:context=namespace;id=" \o namespace \o ";nsup-period=10">>

\* Variant: a non-zero exit code fails the hook.
TTLHookChecksExitCode(namespace, res) ==
    IF res.err # NilErr THEN res.err
    ELSE IF res.code # 0 THEN <<"command failed">> ELSE NilErr

\* _, _, err := c.Exec(ctx, cmd); return err
TTLHook(namespace, res) == res.err

----------------------------------------------------------------------------
(* The calls a caller can write *)

Images == {"aerospike/aerospike-server:7.2", ""}

Namespaces == {"", "namespace", "name\tspace\n"}

LogLevels == {"debug", ""}

TTLNamespaces == {"", "namespace"}

Calls ==
    {[api |-> "WithImage", arg |-> v] : v \in Images}
    \cup {[api |-> "WithEnterpriseEdition", arg |-> ""]}
    \cup {[api |-> "WithNamespace", arg |-> s] : s \in Namespaces}
    \cup {[api |-> "WithLogLevel", arg |-> l] : l \in LogLevels}
    \cup {[api |-> "WithTTLSupport", arg |-> n] : n \in TTLNamespaces}
    \cup {[api |-> "failing", arg |-> ""]}

\* Evaluating the argument expression of a call gives the option.
MakeOption(call) ==
    CASE call.api = "WithImage" -> WithImage(call.arg)
      [] call.api = "WithEnterpriseEdition" -> WithEnterpriseEdition
      [] call.api = "WithNamespace" -> WithNamespace(call.arg)
      [] call.api = "WithLogLevel" -> WithLogLevel(call.arg)
      [] call.api = "WithTTLSupport" -> WithTTLSupport(call.arg)
      [] OTHER -> FailingOption

OptLists == UNION {[1..n -> Calls] : n \in 0..MaxOpts}

\* The requests a unit test hands to Customize directly.
Targets == {NilPtr, Ptr(ZeroRequest), Ptr(PopulatedRequest)}

\* Host ports the runtime may bind, as the decimal digits of a nat.Port.
HostPorts == {<<3, 2, 7, 6, 8>>, <<4, 9, 1, 5, 3>>}

ExecResults ==
    {[code |-> 0, err |-> NilErr], [code |-> 1, err |-> NilErr],
     [code |-> 0, err |-> <<"exec: container is not running">>]}

----------------------------------------------------------------------------
(* The framework *)

RECURSIVE Flatten(_)
\* The post-start hooks of a request, in the order the framework runs them.
Flatten(hooks) ==
    IF hooks = << >> THEN << >>
    ELSE Head(hooks).PostStarts \o Flatten(Tail(hooks))

RECURSIVE Decimal(_)
\* nat.Port.Int(): the number the digits of the port spell.
Decimal(digits) ==
    IF digits = << >> THEN 0
    ELSE 10 * Decimal(SubSeq(digits, 1, Len(digits) - 1)) + digits[Len(digits)]

InSeq(x, s) == \E k \in 1..Len(s) : s[k] = x

\* Container.MappedPort(ctx, port)
MappedPort(port) ==
    IF container = "running" /\ InSeq(port, fwReq[1].ExposedPorts)
    THEN [port |-> [digits |-> hostPort, proto |-> "tcp"], err |-> NilErr]
    ELSE [port |-> [digits |-> << >>, proto |-> ""], err |-> <<"port not found">>]

----------------------------------------------------------------------------
(* Initial state *)

NoRet == [handle |-> NilPtr, err |-> NilErr]

Init ==
    /\ pc = "idle"
    /\ opts = << >>
    /\ idx = 1
    /\ req = NilPtr
    /\ before = NilPtr
    /\ applied = << >>
    /\ outcome = "none"
    /\ custErr = NilErr
    /\ ret = NoRet
    /\ fwCalls = 0
    /\ fwReq = NilPtr
    /\ fwRet = [container |-> NilPtr, err |-> NilErr]
    /\ container = "none"
    /\ hostPort = << >>
    /\ hookIdx = 1
    /\ execLog = << >>
    /\ portRet = NilPtr

----------------------------------------------------------------------------
(* RunContainer *)

\* The request RunContainer starts from.
BaseRequest ==
    [Image |-> communityAerospikeImage,
     ExposedPorts |-> <<"3000/tcp">>,
     WaitingFor |-> "aerospikeWaitStrategy",
     Env |-> NilMap,
     LifecycleHooks |-> << >>,
     Started |-> TRUE]

\* The caller calls RunContainer(ctx, opts...); the request is built.
RunContainer ==
    /\ pc = "idle"
    /\ \E os \in OptLists : opts' = os
    /\ req' = Ptr(BaseRequest)
    /\ idx' = 1
    /\ pc' = "options"
    /\ UNCHANGED <<before, applied, outcome, custErr, ret, fwCalls, fwReq, fwRet,
                   container, hostPort, hookIdx, execLog, portRet>>

\* Variant: the list is walked from its end.
RangeElemReversed(os, k) == os[Len(os) + 1 - k]

\* for _, opt := range opts: the element of the k-th iteration
RangeElem(os, k) == os[k]

\* Variant: the error of Customize is dropped and the loop goes on.
ApplyOptionIgnoringError ==
    /\ pc = "options"
    /\ idx <= Len(opts)
    /\ LET call == RangeElem(opts, idx)
           r == Customize(MakeOption(call), req)
       IN  /\ before' = req
           /\ applied' = Append(applied, call)
           /\ outcome' = r.outcome
           /\ custErr' = r.err
           /\ req' = r.req
           /\ idx' = idx + 1
           /\ UNCHANGED <<pc, ret>>
    /\ UNCHANGED <<opts, fwCalls, fwReq, fwRet, container, hostPort, hookIdx,
                   execLog, portRet>>

\* One iteration of the option loop.
ApplyOption ==
    /\ pc = "options"
    /\ idx <= Len(opts)
    /\ LET call == RangeElem(opts, idx)
           r == Customize(MakeOption(call), req)
       IN  /\ before' = req
           /\ applied' = Append(applied, call)
           /\ outcome' = r.outcome
           /\ custErr' = r.err
           /\ req' = r.req
           /\ IF r.outcome = "panic"
              THEN pc' = "panicked" /\ UNCHANGED <<idx, ret>>
              ELSE IF r.err # NilErr
              THEN /\ ret' = [handle |-> NilPtr,
                              err |-> Wrap("failed to apply option", r.err)]
                   /\ pc' = "returned"
                   /\ UNCHANGED idx
              ELSE /\ idx' = idx + 1
                   /\ UNCHANGED <<pc, ret>>
    /\ UNCHANGED <<opts, fwCalls, fwReq, fwRet, container, hostPort, hookIdx,
                   execLog, portRet>>

\* The loop is over: testcontainers.GenericContainer(ctx, genericContainerRequest)
\* is called with a copy of the request.
CallGenericContainer ==
    /\ pc = "options"
    /\ idx > Len(opts)
    /\ fwCalls' = fwCalls + 1
    /\ fwReq' = req
    /\ pc' = "create"
    /\ UNCHANGED <<opts, idx, req, before, applied, outcome, custErr, ret, fwRet,
                   container, hostPort, hookIdx, execLog, portRet>>

\* The framework creates the container, or fails to.
FwCreate ==
    /\ pc = "create"
    /\ \/ /\ container' = "created"
          /\ pc' = "start"
          /\ UNCHANGED fwRet
       \/ /\ fwRet' = [container |-> NilPtr, err |-> <<"create container">>]
          /\ pc' = "generic_return"
          /\ UNCHANGED container
    /\ UNCHANGED <<opts, idx, req, before, applied, outcome, custErr, ret, fwCalls,
                   fwReq, hostPort, hookIdx, execLog, portRet>>

\* Started is true: the framework starts the container, or fails to.
FwStart ==
    /\ pc = "start"
    /\ \/ /\ container' = "running"
          /\ \E hp \in HostPorts : hostPort' = hp
          /\ hookIdx' = 1
          /\ pc' = "poststart"
          /\ UNCHANGED fwRet
       \/ /\ fwRet' = [container |-> Ptr("container"), err |-> <<"start container">>]
          /\ pc' = "generic_return"
          /\ UNCHANGED <<container, hostPort, hookIdx>>
    /\ UNCHANGED <<opts, idx, req, before, applied, outcome, custErr, ret, fwCalls,
                   fwReq, execLog, portRet>>

\* The framework runs the next post-start hook of the request.
FwPostStart ==
    /\ pc = "poststart"
    /\ hookIdx <= Len(Flatten(fwReq[1].LifecycleHooks))
    /\ LET h == Flatten(fwReq[1].LifecycleHooks)[hookIdx]
       IN  \E res \in ExecResults :
             LET err == TTLHook(h.namespace, res)
             IN  /\ execLog' = Append(execLog,
                        [cmd |-> TTLCommand(h.namespace), at |-> container,
                         code |-> res.code, err |-> res.err])
                 /\ IF err # NilErr
                    THEN /\ fwRet' = [container |-> Ptr("container"),
                                      err |-> Wrap("post start hook", err)]
                         /\ pc' = "generic_return"
                         /\ UNCHANGED hookIdx
                    ELSE /\ hookIdx' = hookIdx + 1
                         /\ UNCHANGED <<pc, fwRet>>
    /\ UNCHANGED <<opts, idx, req, before, applied, outcome, custErr, ret, fwCalls,
                   fwReq, container, hostPort, portRet>>

\* The hooks are done: the framework waits for the wait strategy, which
\* succeeds or gives up, and GenericContainer returns.
FwWaitReady ==
    /\ pc = "poststart"
    /\ hookIdx > Len(Flatten(fwReq[1].LifecycleHooks))
    /\ \E e \in {NilErr, <<"wait until ready">>} :
          fwRet' = [container |-> Ptr("container"), err |-> e]
    /\ pc' = "generic_return"
    /\ UNCHANGED <<opts, idx, req, before, applied, outcome, custErr, ret, fwCalls,
                   fwReq, container, hostPort, hookIdx, execLog, portRet>>

\* Variant: the container GenericContainer returned is handed back with the error.
RunContainerReturnKeepingHandle ==
    /\ pc = "generic_return"
    /\ ret' = [handle |-> IF fwRet.container = NilPtr THEN NilPtr
                          ELSE Ptr([Container |-> fwRet.container[1]]),
               err |-> IF fwRet.err # NilErr
                       THEN Wrap("failed to start Aerospike", fwRet.err)
                       ELSE NilErr]
    /\ pc' = "returned"
    /\ UNCHANGED <<opts, idx, req, before, applied, outcome, custErr, fwCalls, fwReq,
                   fwRet, container, hostPort, hookIdx, execLog, portRet>>

\* GenericContainer has returned: RunContainer wraps the error or the handle.
RunContainerReturn ==
    /\ pc = "generic_return"
    /\ ret' = IF fwRet.err # NilErr
              THEN [handle |-> NilPtr,
                    err |-> Wrap("failed to start Aerospike", fwRet.err)]
              ELSE [handle |-> Ptr([Container |-> fwRet.container[1]]),
                    err |-> NilErr]
    /\ pc' = "returned"
    /\ UNCHANGED <<opts, idx, req, before, applied, outcome, custErr, fwCalls, fwReq,
                   fwRet, container, hostPort, hookIdx, execLog, portRet>>

----------------------------------------------------------------------------
(* The caller, once RunContainer has returned *)

\* container.ServicePort(ctx)
ServicePort ==
    /\ pc = "returned"
    /\ ret.handle # NilPtr
    /\ LET m == MappedPort(aerospikeServicePort)
       IN  portRet' = Ptr(IF m.err # NilErr
                          THEN [port |-> 0, err |-> m.err]
                          ELSE [port |-> Decimal(m.port.digits), err |-> NilErr])
    /\ UNCHANGED <<pc, opts, idx, req, before, applied, outcome, custErr, ret,
                   fwCalls, fwReq, fwRet, container, hostPort, hookIdx, execLog>>

\* container.Terminate(ctx), inherited from the framework's handle.
Terminate ==
    /\ pc = "returned"
    /\ ret.handle # NilPtr
    /\ container = "running"
    /\ container' = "terminated"
    /\ UNCHANGED <<pc, opts, idx, req, before, applied, outcome, custErr, ret,
                   fwCalls, fwReq, fwRet, hostPort, hookIdx, execLog, portRet>>

\* A unit test applies one option to a request of its own.
DirectCustomize ==
    /\ pc = "idle"
    /\ \E call \in Calls, p \in Targets :
          LET r == Customize(MakeOption(call), p)
          IN  /\ opts' = <<call>>
              /\ before' = p
              /\ applied' = <<call>>
              /\ outcome' = r.outcome
              /\ custErr' = r.err
              /\ req' = r.req
    /\ pc' = "direct"
    /\ UNCHANGED <<idx, ret, fwCalls, fwReq, fwRet, container, hostPort, hookIdx,
                   execLog, portRet>>

Next ==
    \/ RunContainer
    \/ ApplyOption
    \/ CallGenericContainer
    \/ FwCreate
    \/ FwStart
    \/ FwPostStart
    \/ FwWaitReady
    \/ RunContainerReturn
    \/ ServicePort
    \/ Terminate
    \/ DirectCustomize

Spec == Init /\ [][Next]_vars

----------------------------------------------------------------------------
(* Vocabulary of the properties *)

\* The call whose Customize ran most recently.
LastCall == applied[Len(applied)]

\* A Customize has run, on a request that exists.
Customized == outcome # "none" /\ before # NilPtr

\* The positions of os that hold a call of one of the given constructors.
Writers(os, apis) == {k \in 1..Len(os) : os[k].api \in apis}

Max(S) == CHOOSE m \in S : \A n \in S : n <= m

\* The image a call asks for, as the caller reads it off the call.
ImageAsked(call) ==
    IF call.api = "WithEnterpriseEdition"
    THEN "aerospike/aerospike-server-enterprise:8.0"
    ELSE call.arg

\* The environment entry key holds exactly what the last call of api in os
\* asked for, and is absent when os has no such call.
EnvIsLastWrite(env, key, os, api) ==
    LET w == Writers(os, {api})
    IN  IF w = {} THEN key \notin DOMAIN env.kv
        ELSE key \in DOMAIN env.kv /\ env.kv[key] = os[Max(w)].arg

\* C1: RunContainer applies the options in the order of the argument list,
\* each to the one request, and the request the framework receives holds,
\* for Image, Env["NAMESPACE"] and Env["AEROSPIKE_LOG_LEVEL"], the value of
\* the last option in the list that writes it (the base value when none does).
C1_OrderedLastWriteWins ==
    /\ Len(applied) <= Len(opts)
    /\ applied = SubSeq(opts, 1, Len(applied))
    /\ fwCalls >= 1 =>
          LET r == fwReq[1]
              w == Writers(opts, {"WithImage", "WithEnterpriseEdition"})
          IN  /\ applied = opts
              /\ r = req[1]
              /\ r.Image = IF w = {} THEN "aerospike/aerospike-server:8.0"
                            ELSE ImageAsked(opts[Max(w)])
              /\ EnvIsLastWrite(r.Env, "NAMESPACE", opts, "WithNamespace")
              /\ EnvIsLastWrite(r.Env, "AEROSPIKE_LOG_LEVEL", opts, "WithLogLevel")

\* Two options of one launch wrote NAMESPACE with different values, and the
\* framework received the later one.
C1_Witness ==
    /\ fwCalls = 1
    /\ \E j, k \in 1..Len(opts) :
          /\ j < k
          /\ opts[j].api = "WithNamespace" /\ opts[k].api = "WithNamespace"
          /\ opts[j].arg # opts[k].arg
          /\ k = Max(Writers(opts, {"WithNamespace"}))
          /\ fwReq[1].Env.kv["NAMESPACE"] = opts[k].arg

\* C2: for every string s and every starting request, Customize of
\* WithNamespace(s) returns no error and Env["NAMESPACE"] then reads back
\* exactly s.
C2_NamespaceRoundTrip ==
    (Customized /\ LastCall.api = "WithNamespace") =>
        /\ outcome = "ok"
        /\ custErr = NilErr
        /\ req # NilPtr
        /\ ~req[1].Env.isNil
        /\ MapGet(req[1].Env, "NAMESPACE") = LastCall.arg

\* The namespace with a tab and a newline was written over an existing entry.
C2_Witness ==
    /\ pc = "direct"
    /\ before = Ptr(PopulatedRequest)
    /\ LastCall = [api |-> "WithNamespace", arg |-> "name\tspace\n"]
    /\ req[1].Env.kv["NAMESPACE"] = "name\tspace\n"

\* C3: WithImage(v) sets Image to exactly v, and WithEnterpriseEdition() does
\* to any request what WithImage("aerospike/aerospike-server-enterprise:8.0")
\* does to it.
C3_ImageAndEnterprise ==
    /\ (Customized /\ LastCall.api = "WithImage") =>
          outcome = "ok" /\ req[1].Image = LastCall.arg
    /\ (Customized /\ LastCall.api = "WithEnterpriseEdition") =>
          LET r == Customize(WithImage("aerospike/aerospike-server-enterprise:8.0"),
                             before)
          IN  outcome = r.outcome /\ custErr = r.err /\ req = r.req

\* WithEnterpriseEdition was applied to a request that held another image.
C3_Witness ==
    /\ pc = "direct"
    /\ before = Ptr(PopulatedRequest)
    /\ LastCall.api = "WithEnterpriseEdition"
    /\ req[1].Image = "aerospike/aerospike-server-enterprise:8.0"

\* C4: when the k-th option's Customize returns an error, RunContainer
\* returns a nil handle and an error wrapping it, applies no later option and
\* never invokes the framework; when the framework call fails, RunContainer
\* returns a nil handle and an error wrapping the framework's; the framework is
\* invoked at most once per launch.
C4_FailureAborts ==
    /\ fwCalls <= 1
    /\ pc # "direct" =>
          /\ \A j \in 1..(Len(applied) - 1) : applied[j].api # "failing"
          /\ outcome = "error" =>
                /\ pc = "returned"
                /\ ret.handle = NilPtr
                /\ ret.err = <<"failed to apply option">> \o custErr
                /\ custErr # NilErr
                /\ fwCalls = 0
                /\ container = "none"
          /\ fwCalls = 1 => \A j \in 1..Len(opts) : opts[j].api # "failing"
    /\ (pc = "returned" /\ fwCalls = 1 /\ fwRet.err # NilErr) =>
          /\ ret.handle = NilPtr
          /\ ret.err = <<"failed to start Aerospike">> \o fwRet.err

\* The second of three options failed and RunContainer has returned.
C4_Witness ==
    /\ pc = "returned"
    /\ Len(opts) = 3
    /\ Len(applied) = 2
    /\ outcome = "error"
    /\ fwCalls = 0
    /\ ret.handle = NilPtr

RepoApis == {"WithImage", "WithEnterpriseEdition", "WithNamespace", "WithLogLevel",
             "WithTTLSupport"}

\* C5: an option function applied to a nil request returns an error (it does
\* not crash), and that is the only case in which one returns an error.
C5_NilTargetIsError ==
    (outcome # "none" /\ LastCall.api \in RepoApis) =>
        /\ before = NilPtr => outcome = "error"
        /\ outcome = "error" => before = NilPtr

\* C6: ServicePort returns the host port the framework reports for 3000/tcp,
\* the port RunContainer exposes, with a nil error; when the framework reports
\* no mapping (the container is not running any more) it returns 0 and the
\* framework's error.
C6_ServicePort ==
    [][(pc = "returned" /\ ret.handle # NilPtr /\ portRet' # portRet) =>
          /\ fwReq[1].ExposedPorts = <<"3000/tcp">>
          /\ IF container = "running"
             THEN portRet' = Ptr([port |-> Decimal(hostPort), err |-> NilErr])
             ELSE portRet' = Ptr([port |-> 0, err |-> <<"port not found">>])]_vars

\* ServicePort returned the number of the bound host port 49153.
C6_Witness ==
    /\ hostPort = <<4, 9, 1, 5, 3>>
    /\ portRet = Ptr([port |-> 49153, err |-> NilErr])

\* The command the administrator would write for namespace ns.
SetConfigCommand(ns) ==
    <<"asinfo", "-v", "set-config:context=namespace;id=" \o ns \o ";nsup-period=10">>

RECURSIVE ExpectedCommands(_)
\* The commands the WithTTLSupport calls of os ask for, in order.
ExpectedCommands(os) ==
    IF os = << >> THEN << >>
    ELSE (IF Head(os).api = "WithTTLSupport"
          THEN <<SetConfigCommand(IF Head(os).arg = "" THEN "test" ELSE Head(os).arg)>>
          ELSE << >>) \o ExpectedCommands(Tail(os))

\* C7: WithTTLSupport(ns) appends exactly one post-start hook and keeps the
\* hooks already registered, in order; no command is issued while the request
\* is configured; each command is issued in a running container and is the
\* set-config command with nsup-period=10 for ns, or for "test" when ns is
\* empty, whatever NAMESPACE holds.
C7_TTLHook ==
    /\ (Customized /\ LastCall.api = "WithTTLSupport") =>
          LET old == before[1].LifecycleHooks
              new == req[1].LifecycleHooks
          IN  /\ outcome = "ok"
              /\ Len(new) = Len(old) + 1
              /\ SubSeq(new, 1, Len(old)) = old
              /\ Len(new[Len(new)].PostStarts) = 1
              /\ Len(Flatten(new)) = Len(Flatten(old)) + 1
    /\ pc \in {"idle", "direct", "options", "create", "start"} => execLog = << >>
    /\ \A j \in 1..Len(execLog) : execLog[j].at = "running"
    /\ LET want == ExpectedCommands(opts)
       IN  /\ Len(execLog) <= Len(want)
           /\ \A j \in 1..Len(execLog) : execLog[j].cmd = want[j]
           /\ (pc = "returned" /\ ret.err = NilErr) => Len(execLog) = Len(want)

\* A launch with WithNamespace("namespace") and WithTTLSupport("") succeeded
\* and the command named "test".
C7_Witness ==
    /\ pc = "returned"
    /\ ret.err = NilErr
    /\ fwReq[1].Env.kv = [k \in {"NAMESPACE"} |-> "namespace"]
    /\ Len(execLog) = 1
    /\ execLog[1].cmd[3] = "set-config:context=namespace;id=test;nsup-period=10"

\* r and q agree on every field but Env, and on every Env entry but key.
SameBut(r, q, key) ==
    /\ r.Image = q.Image
    /\ r.ExposedPorts = q.ExposedPorts
    /\ r.WaitingFor = q.WaitingFor
    /\ r.LifecycleHooks = q.LifecycleHooks
    /\ r.Started = q.Started
    /\ (DOMAIN r.Env.kv) \ {key} = (DOMAIN q.Env.kv) \ {key}
    /\ \A k \in (DOMAIN r.Env.kv) \ {key} : r.Env.kv[k] = q.Env.kv[k]

\* C8: WithNamespace changes nothing but Env["NAMESPACE"], WithLogLevel nothing
\* but Env["AEROSPIKE_LOG_LEVEL"], and applying the two in either order gives
\* the same request.
C8_Frame ==
    /\ (Customized /\ LastCall.api = "WithNamespace") =>
          SameBut(req[1], before[1], "NAMESPACE")
    /\ (Customized /\ LastCall.api = "WithLogLevel") =>
          /\ SameBut(req[1], before[1], "AEROSPIKE_LOG_LEVEL")
          /\ MapGet(req[1].Env, "AEROSPIKE_LOG_LEVEL") = LastCall.arg
    /\ req # NilPtr =>
          \A s \in Namespaces, l \in LogLevels :
             LET ns == MakeOption([api |-> "WithNamespace", arg |-> s])
                 ll == MakeOption([api |-> "WithLogLevel", arg |-> l])
             IN  Customize(ll, Customize(ns, req).req)
                    = Customize(ns, Customize(ll, req).req)

\* WithLogLevel("debug") was applied to a populated request.
C8_Witness ==
    /\ pc = "direct"
    /\ before = Ptr(PopulatedRequest)
    /\ LastCall = [api |-> "WithLogLevel", arg |-> "debug"]
    /\ req[1].Env.kv["AEROSPIKE_LOG_LEVEL"] = "debug"
    /\ req[1].Env.kv["NAMESPACE"] = "old"

\* C9: RunContainer returns a handle exactly when it returns no error and
\* never terminates a container; after a launch whose container was created
\* before the framework failed, the caller has no handle to terminate it with.
C9_HandleIffNoError ==
    /\ pc # "returned" => ret = NoRet
    /\ pc = "returned" => (ret.handle # NilPtr <=> ret.err = NilErr)
    /\ container = "terminated" => (pc = "returned" /\ ret.handle # NilPtr)
    /\ (pc = "returned" /\ ret.err # NilErr) =>
          /\ container \in {"none", "created", "running"}
          /\ ~ENABLED Terminate

\* The launch failed after the container was started: it still runs and the
\* caller holds no handle.
C9_Witness ==
    /\ pc = "returned"
    /\ ret.handle = NilPtr
    /\ fwRet.container # NilPtr
    /\ container = "running"

\* C10: the post-start hook of WithTTLSupport fails, and fails the launch,
\* only when Exec itself returns an error; the exit code of the command is
\* discarded, so a command that exits non-zero leaves the launch successful.
C10_HookFailsOnlyOnExecError ==
    /\ \A j \in 1..Len(execLog) :
          execLog[j].err # NilErr =>
             /\ j = Len(execLog)
             /\ pc \in {"generic_return", "returned"}
             /\ fwRet.err = <<"post start hook">> \o execLog[j].err
    /\ (fwRet.err # NilErr /\ Head(fwRet.err) = "post start hook") =>
          /\ execLog # << >>
          /\ execLog[Len(execLog)].err # NilErr
    /\ (pc = "returned" /\ ret.err # NilErr /\ execLog # << >>
           /\ execLog[Len(execLog)].err = NilErr) =>
          ret.err \in {<<"failed to start Aerospike", "wait until ready">>}

\* The command exited with a non-zero code and the launch succeeded.
C10_Witness ==
    /\ pc = "returned"
    /\ ret.err = NilErr
    /\ ret.handle # NilPtr
    /\ \E j \in 1..Len(execLog) : execLog[j].code # 0

====
